---- MODULE Spec2Model ----
(***************************************************************************)
(* A model of mcp-net's provider registry (MCPManager) and of the process  *)
(* sessions it drives (getToolInfos, ExecuteTool), taken from              *)
(* server/mcp_manager.go.                                                  *)
(*                                                                         *)
(* Strings are sequences of one-character strings, so that splitting,      *)
(* joining and extension stripping are computed, not assumed.              *)
(***************************************************************************)
EXTENDS Integers, Sequences, FiniteSets, TLC

VARIABLES
    mcpMap,     \* MCPManager.mcpMap: identifier -> MCPInfo
    mutex,      \* MCPManager.mutex: [writer: none|pending|held, readers: set]
    lpc,        \* position of the LoadMCPs call: idle | lockwait | walking
    walkPos,    \* index in Universe of the entry WalkDir visited last
    scanned,    \* history: the candidates stored by the last scan, in order
    loadRet,    \* what the last LoadMCPs returned: none | nil | err
    walkFault,  \* history: whether the walk met an entry it could not read
    rpc,        \* per reader: idle | rwait | rlocked | rheld
    rcall,      \* per reader: the call in progress [kind, arg]
    rres,       \* per reader: what the body read and returned [seen, out]
    sop,        \* the session's operation: none | discover | invoke
    spc,        \* position in getToolInfos / ExecuteTool
    child,      \* cmd.Process: none | running | exited | killed
    fds,        \* the parent's ends of the stdin/stdout pipes: none | open | closed
    ctx,        \* the context handed to exec.CommandContext: live | done
    ios,        \* history: the writes to stdin and the reads from stdout, in order
    served,     \* how many of the written requests the child has taken up
    todo,       \* bytes of an answer the child has not written yet
    pipe,       \* bytes written by the child and not read yet
    sent,       \* history: the answers the child produced, per request
    sres,       \* what the operation returned
    prevMap,    \* history: mcpMap as it was when the last recorded reload began
    req,        \* the request the server is handling
    frame,      \* what the server answered to it
    cur,        \* the process session whose turn is in the session variables
    parked,     \* the state of the sessions that wait for their turn
    target,     \* the path of the executable the session's command runs
    ppc,        \* mcp-proxy main: select | read | forward | await | write | exited
    pctx,       \* mcp-proxy main: ctx, live | done
    signals,    \* mcp-proxy main: the signals channel, none | pending | taken
    stdin,      \* mcp-proxy: [buf: messages written and not read, state: open | eof | error]
    buffer,     \* mcp-proxy main: buffer[:n], the chunk read last
    response,   \* mcp-proxy main: the response to write
    stdout,     \* mcp-proxy: the responses written to stdout, in order
    chunks,     \* history: the chunks read from stdin, in order
    posts       \* history: the POSTs made, in order, [chunk, outcome]

regVars == <<mcpMap, mutex, lpc, walkPos, scanned, loadRet, walkFault, rpc,
            rcall, rres>>

sessVars == <<sop, spc, child, fds, ctx, ios, served, todo, pipe, sent, sres>>

proxyVars == <<ppc, pctx, signals, stdin, buffer, response, stdout, chunks, posts>>

auxVars == <<prevMap, proxyVars, req, frame, cur, parked, target>>

-----------------------------------------------------------------------------
(* Bounds *)

NumReaders == 2

Readers == 1..NumReaders

\* How many process sessions run side by side.
NumSessions == 2

Sessions == 1..NumSessions

-----------------------------------------------------------------------------
(* Strings *)

Dot == "."

Dots(s) == {i \in 1..Len(s) : s[i] = Dot}

SetMax(S) == CHOOSE x \in S : \A y \in S : y <= x

SetMin(S) == CHOOSE x \in S : \A y \in S : x <= y

Slashes(s) == {i \in 1..Len(s) : s[i] = "/"}

\* filepath.Base: the last element of a path.
Base(path) ==
    IF Slashes(path) = {} THEN path
    ELSE SubSeq(path, SetMax(Slashes(path)) + 1, Len(path))

\* filepath.Ext: the suffix beginning at the final dot, empty without a dot.
Ext(name) ==
    IF Dots(name) = {} THEN <<>>
    ELSE SubSeq(name, SetMax(Dots(name)), Len(name))

\* name[:len(name)-len(ext)] when ext is not empty (LoadMCPs, lines 73-78).
StripExt(name) ==
    IF Ext(name) # <<>> THEN SubSeq(name, 1, Len(name) - Len(Ext(name)))
    ELSE name

\* Lines 73-78: the identifier of a candidate, its base name without the
\* extension.
NameOf(path) == StripExt(Base(path))

\* A split at the last "." instead of the first.
SplitAtLastDot(s) ==
    IF Dots(s) = {} THEN <<s>>
    ELSE <<SubSeq(s, 1, SetMax(Dots(s)) - 1),
           SubSeq(s, SetMax(Dots(s)) + 1, Len(s))>>

\* strings.SplitN(s, ".", 2): at most two parts, cut at the first separator.
SplitN2(s) ==
    IF Dots(s) = {} THEN <<s>>
    ELSE <<SubSeq(s, 1, SetMin(Dots(s)) - 1),
           SubSeq(s, SetMin(Dots(s)) + 1, Len(s))>>

\* fmt.Sprintf("%s.%s", mcpName, tool.Name)
Sprintf2(mcpName, toolName) == mcpName \o <<Dot>> \o toolName

-----------------------------------------------------------------------------
(* The directory and the providers' catalogs the model draws from *)

\* The paths a scan can meet, relative to the configured directory, in the
\* lexical order filepath.WalkDir visits them.  "a" and "a.x" strip to the same
\* identifier; "a.b.x" strips to an identifier that itself contains a dot;
\* "d/b" lies in the subdirectory d, which WalkDir descends into after the
\* callback returned nil for it (lines 60-62).
Universe ==
    << <<"a">>, <<"a", ".", "b", ".", "x">>, <<"a", ".", "x">>, <<"d", "/", "b">> >>

ToolInfo(name, description) == [Name |-> name, Description |-> description]

\* The tool lists a provider's tools/list answer can decode to.
Catalogs ==
    { <<ToolInfo(<<"a">>, "d1"), ToolInfo(<<"b", ".", "a">>, "d2")>>,
      <<ToolInfo(<<"b">>, "d1"), ToolInfo(<<"b">>, "d1")>> }

\* What getToolInfos can return to LoadMCPs: an error, or a decoded catalog.
DiscoveryOutcomes ==
    {[err |-> TRUE, tools |-> <<>>]} \cup
    {[err |-> FALSE, tools |-> c] : c \in Catalogs}

\* The names handed to GetMCPForTool.
LocalNames == { <<>>, <<"a">>, <<"a", ".", "b">>, <<".">> }

Prefixes == { <<>>, <<"a">>, <<"b">>, <<"g">>, <<"a", ".", "b">> }

ToolNames ==
    {Sprintf2(p, t) : p \in Prefixes, t \in LocalNames} \cup
    { <<>>, <<"a">>, <<"g">> }

\* The name concurrent callers resolve.
ConcurrentNames == { <<"a", ".", "a">> }

-----------------------------------------------------------------------------
(* MCPManager: construction *)

EmptyMap == [n \in {} |-> 0]

NoCall == [kind |-> "none", arg |-> <<>>]

NoRes == [seen |-> EmptyMap, out |-> <<>>]

\* NewMCPManager (lines 38-43): an empty map, an unlocked mutex.
RegInit ==
    /\ mcpMap = EmptyMap
    /\ mutex = [writer |-> "none", readers |-> {}]
    /\ lpc = "idle"
    /\ walkPos = 0
    /\ scanned = <<>>
    /\ loadRet = "none"
    /\ walkFault = FALSE
    /\ rpc = [r \in Readers |-> "idle"]
    /\ rcall = [r \in Readers |-> NoCall]
    /\ rres = [r \in Readers |-> NoRes]

-----------------------------------------------------------------------------
(* sync.RWMutex *)

\* Lock announces the writer; from then on new readers wait.
LockAnnounce(m) == [m EXCEPT !.writer = "pending"]

\* The announced writer gets the lock once the readers that hold it have left.
CanLock(m) == m.writer = "pending" /\ m.readers = {}

\* A read lock that does not wait for the writer.
CanRLockDespiteWriter(m) == TRUE

\* RLock succeeds unless a writer holds or has announced itself.
CanRLock(m) == m.writer = "none"

RLock(m, r) == [m EXCEPT !.readers = @ \cup {r}]

RUnlock(m, r) == [m EXCEPT !.readers = @ \ {r}]

\* A LoadMCPs that returns without unlocking.
UnlockForgotten(m) == m

Unlock(m) == [m EXCEPT !.writer = "none"]

-----------------------------------------------------------------------------
(* LoadMCPs (lines 46-100) *)

\* Lines 80-84 and 87-95: the MCPInfo stored for a candidate; a failed
\* discovery leaves ToolInfos nil.
NewMCPInfo(name, path, disc) ==
    [Name |-> name, Path |-> path,
     ToolInfos |-> IF disc.err THEN <<>> ELSE disc.tools]

\* A store that keeps what the map already holds under the name.
StoreKeepsFirst(m, name, info) ==
    [n \in DOMAIN m \cup {name} |-> IF n \in DOMAIN m THEN m[n] ELSE info]

\* m.mcpMap[name] = mcpInfo (line 95)
Store(m, name, info) ==
    [n \in DOMAIN m \cup {name} |-> IF n = name THEN info ELSE m[n]]

\* m.mutex.Lock() is called (line 47).
LoadCall ==
    /\ lpc = "idle"
    /\ mutex.writer = "none"
    /\ lpc' = "lockwait"
    /\ mutex' = LockAnnounce(mutex)
    /\ UNCHANGED <<mcpMap, walkPos, scanned, loadRet, walkFault, rpc, rcall, rres, sessVars, auxVars>>

\* Lock returns and the walk starts over the map as it is.
LoadAcquireKeepsMap ==
    /\ lpc = "lockwait"
    /\ CanLock(mutex)
    /\ mutex' = [mutex EXCEPT !.writer = "held"]
    /\ lpc' = "walking"
    /\ walkPos' = 0
    /\ scanned' = <<>>
    /\ loadRet' = "none"
    /\ walkFault' = FALSE
    /\ UNCHANGED <<mcpMap, rpc, rcall, rres, sessVars, auxVars>>

\* Lock returns; the map is cleared (line 51) and the walk starts.
LoadAcquire ==
    /\ lpc = "lockwait"
    /\ CanLock(mutex)
    /\ mutex' = [mutex EXCEPT !.writer = "held"]
    /\ mcpMap' = EmptyMap
    /\ lpc' = "walking"
    /\ walkPos' = 0
    /\ scanned' = <<>>
    /\ loadRet' = "none"
    /\ walkFault' = FALSE
    /\ UNCHANGED <<rpc, rcall, rres, sessVars, auxVars>>

\* What the walk can hand to the callback: an error for the path (the
\* directory cannot be read), a directory, a file whose Info fails, a file
\* without any executable bit, an executable file.
EntryKinds == {"walkerr", "dir", "infoerr", "noexec", "exec"}

\* The discovery outcomes that matter for an entry: all for an executable
\* file, which alone is run.
OutcomesFor(kind) ==
    IF kind = "exec" THEN DiscoveryOutcomes
    ELSE {[err |-> TRUE, tools |-> <<>>]}

\* A callback that leaves out a candidate whose discovery failed.
CallbackSkipsFailedDiscovery(m, path, kind, disc) ==
    IF kind \in {"walkerr", "infoerr"} THEN [ret |-> "err", map |-> m]
    ELSE IF kind \in {"dir", "noexec"} \/ disc.err THEN [ret |-> "nil", map |-> m]
    ELSE [ret |-> "nil",
          map |-> Store(m, NameOf(path), NewMCPInfo(NameOf(path), path, disc))]

\* The WalkDir callback (lines 54-99): what it returns and the map it leaves.
Callback(m, path, kind, disc) ==
    IF kind = "walkerr" THEN [ret |-> "err", map |-> m]
    ELSE IF kind = "dir" THEN [ret |-> "nil", map |-> m]
    ELSE IF kind = "infoerr" THEN [ret |-> "err", map |-> m]
    ELSE IF kind = "noexec" THEN [ret |-> "nil", map |-> m]
    ELSE [ret |-> "nil",
          map |-> Store(m, NameOf(path), NewMCPInfo(NameOf(path), path, disc))]

\* WalkDir calls the callback for the next entry.  When the callback returns
\* an error the walk stops, LoadMCPs returns it and the deferred Unlock runs.
LoadVisit ==
    /\ lpc = "walking"
    /\ \E i \in (walkPos + 1)..Len(Universe), kind \in EntryKinds :
         \E disc \in OutcomesFor(kind) :
           LET path == Universe[i]
               cb == Callback(mcpMap, path, kind, disc)
           IN  /\ walkPos' = i
               /\ mcpMap' = cb.map
               /\ scanned' = IF kind = "exec"
                             THEN Append(scanned, [name |-> NameOf(path),
                                                   path |-> path, disc |-> disc])
                             ELSE scanned
               /\ walkFault' = (kind \in {"walkerr", "infoerr"})
               /\ IF cb.ret = "err"
                  THEN /\ lpc' = "idle"
                       /\ loadRet' = "err"
                       /\ mutex' = Unlock(mutex)
                  ELSE UNCHANGED <<lpc, loadRet, walkFault, mutex>>
    /\ UNCHANGED <<rpc, rcall, rres, sessVars, auxVars>>

\* The walk is over: LoadMCPs returns nil and the deferred Unlock runs.
LoadReturn ==
    /\ lpc = "walking"
    /\ lpc' = "idle"
    /\ loadRet' = "nil"
    /\ mutex' = Unlock(mutex)
    /\ UNCHANGED <<mcpMap, walkPos, scanned, walkFault, rpc, rcall, rres, sessVars, auxVars>>

-----------------------------------------------------------------------------
(* GetAllTools (lines 177-191) *)

\* The orders in which a range over a map with the keys S can run.
Orders(S) ==
    {o \in [1..Cardinality(S) -> S] : \A i, j \in DOMAIN o : o[i] = o[j] => i = j}

\* Copies that keep the local names.
ToolCopiesUnprefixed(mcpName, toolInfos) == toolInfos

\* Lines 183-188: a copy of each tool of one endpoint, its name prefixed.
ToolCopies(mcpName, toolInfos) ==
    [i \in 1..Len(toolInfos) |->
        [toolInfos[i] EXCEPT !.Name = Sprintf2(mcpName, toolInfos[i].Name)]]

RECURSIVE GetAllToolsFrom(_, _, _)
\* Lines 181-190: allTools after the range over m ran in the given order.
GetAllToolsFrom(m, order, allTools) ==
    IF order = <<>> THEN allTools
    ELSE GetAllToolsFrom(m, Tail(order),
             allTools \o ToolCopies(Head(order), m[Head(order)].ToolInfos))

GetAllTools(m, order) == GetAllToolsFrom(m, order, <<>>)

\* The map after GetAllTools ran: the loop writes to toolCopy and to allTools
\* only (line 185 copies the tool before line 186 renames it).
MapAfterGetAllTools(m) == m

-----------------------------------------------------------------------------
(* GetMCPForTool (lines 194-212) *)

NilInfo == [Name |-> <<>>, Path |-> <<>>, ToolInfos |-> <<>>]

ResolveError(kind) ==
    [err |-> kind, mcpInfo |-> NilInfo, localToolName |-> <<>>]

\* A lookup that does not test whether the identifier exists.
GetMCPForToolUnchecked(m, toolName) ==
    LET parts == SplitN2(toolName) IN
    IF Len(parts) # 2 THEN ResolveError("format")
    ELSE [err |-> "nil",
          mcpInfo |-> IF parts[1] \in DOMAIN m THEN m[parts[1]] ELSE NilInfo,
          localToolName |-> parts[2]]

GetMCPForTool(m, toolName) ==
    LET parts == SplitN2(toolName) IN
    IF Len(parts) # 2 THEN ResolveError("format")
    ELSE IF parts[1] \notin DOMAIN m THEN ResolveError("notfound")
    ELSE [err |-> "nil", mcpInfo |-> m[parts[1]], localToolName |-> parts[2]]

-----------------------------------------------------------------------------
(* The callers of GetAllTools and GetMCPForTool *)

\* A caller enters GetAllTools or GetMCPForTool(toolName) and calls RLock.
ReadCall(r, names) ==
    /\ rpc[r] = "idle"
    /\ \E c \in {[kind |-> "GetAllTools", arg |-> <<>>]} \cup
               {[kind |-> "GetMCPForTool", arg |-> n] : n \in names} :
         rcall' = [rcall EXCEPT ![r] = c]
    /\ rpc' = [rpc EXCEPT ![r] = "rwait"]
    /\ UNCHANGED <<mcpMap, mutex, lpc, walkPos, scanned, loadRet, walkFault, rres, sessVars, auxVars>>

\* RLock returns (lines 178, 195).
ReadRLock(r) ==
    /\ rpc[r] = "rwait"
    /\ CanRLock(mutex)
    /\ mutex' = RLock(mutex, r)
    /\ rpc' = [rpc EXCEPT ![r] = "rlocked"]
    /\ UNCHANGED <<mcpMap, lpc, walkPos, scanned, loadRet, walkFault, rcall, rres, sessVars, auxVars>>

\* The body of GetAllTools runs under the read lock.
ReadAllTools(r) ==
    /\ rpc[r] = "rlocked"
    /\ rcall[r].kind = "GetAllTools"
    /\ \E order \in Orders(DOMAIN mcpMap) :
         rres' = [rres EXCEPT ![r] =
                    [seen |-> mcpMap, out |-> GetAllTools(mcpMap, order)]]
    /\ mcpMap' = MapAfterGetAllTools(mcpMap)
    /\ rpc' = [rpc EXCEPT ![r] = "rheld"]
    /\ UNCHANGED <<mutex, lpc, walkPos, scanned, loadRet, walkFault, rcall, sessVars, auxVars>>

\* The body of GetMCPForTool runs under the read lock.
ReadMCPForTool(r) ==
    /\ rpc[r] = "rlocked"
    /\ rcall[r].kind = "GetMCPForTool"
    /\ rres' = [rres EXCEPT ![r] =
                  [seen |-> mcpMap, out |-> GetMCPForTool(mcpMap, rcall[r].arg)]]
    /\ rpc' = [rpc EXCEPT ![r] = "rheld"]
    /\ UNCHANGED <<mcpMap, mutex, lpc, walkPos, scanned, loadRet, walkFault, rcall, sessVars, auxVars>>

\* The deferred RUnlock runs and the call returns.
ReadReturn(r) ==
    /\ rpc[r] = "rheld"
    /\ mutex' = RUnlock(mutex, r)
    /\ rpc' = [rpc EXCEPT ![r] = "idle"]
    /\ rcall' = [rcall EXCEPT ![r] = NoCall]
    /\ rres' = [rres EXCEPT ![r] = NoRes]
    /\ UNCHANGED <<mcpMap, lpc, walkPos, scanned, loadRet, walkFault, sessVars, auxVars>>

-----------------------------------------------------------------------------
(* All the variables *)

vars == <<regVars, sessVars, auxVars>>

-----------------------------------------------------------------------------
(* Bytes on the child's stdout *)

\* buffer := make([]byte, 4096)
BufferSize == 4096

\* The lengths, newline included, of the answers a provider writes: a short
\* one, and two that do not fit the buffer together with their newline.
MsgLens == {3, BufferSize + 1, BufferSize + 2}

\* A run of bytes lo..hi of the answer msg ("init" or "resp").
Seg(msg, lo, hi) == [msg |-> msg, lo |-> lo, hi |-> hi]

SegLen(g) == g.hi - g.lo + 1

\* The ways a provider hands an answer of len bytes to write(2): at once, or
\* in two pieces cut after byte 1 or before the newline.
Pieces(msg, len) ==
    { <<Seg(msg, 1, len)>> } \cup
    { <<Seg(msg, 1, k), Seg(msg, k + 1, len)>> : k \in {1, len - 1} }

\* The pipe after the child wrote one more piece.
PipeAppend(p, g) ==
    IF p # <<>> /\ p[Len(p)].msg = g.msg /\ p[Len(p)].hi + 1 = g.lo
    THEN [p EXCEPT ![Len(p)].hi = g.hi]
    ELSE Append(p, g)

RECURSIVE TakeBytes(_, _)
\* The first n bytes of the pipe: what one Read into an n-byte buffer returns.
TakeBytes(p, n) ==
    IF p = <<>> \/ n = 0 THEN <<>>
    ELSE IF SegLen(Head(p)) <= n
         THEN <<Head(p)>> \o TakeBytes(Tail(p), n - SegLen(Head(p)))
         ELSE << [Head(p) EXCEPT !.hi = Head(p).lo + n - 1] >>

RECURSIVE DropBytes(_, _)
\* The pipe after its first n bytes were read.
DropBytes(p, n) ==
    IF p = <<>> \/ n = 0 THEN p
    ELSE IF SegLen(Head(p)) <= n
         THEN DropBytes(Tail(p), n - SegLen(Head(p)))
         ELSE << [Head(p) EXCEPT !.lo = Head(p).lo + n] >> \o Tail(p)

\* stdout.Read(buffer) on a pipe that holds data (lines 135, 150, 250, 279).
ReadBuffer(p) == TakeBytes(p, BufferSize)

-----------------------------------------------------------------------------
(* What providers answer *)

Body(type, tools, value, code, message) ==
    [type |-> type, tools |-> tools, value |-> value, code |-> code,
     message |-> message]

NoBody == Body("none", <<>>, "", 0, "")

GarbageBody == Body("garbage", <<>>, "", 0, "")

ErrorBody(code, message) == Body("error", <<>>, "", code, message)

\* The error objects a provider answers with.
ErrorBodies ==
    { ErrorBody(-1, "cannot divide by zero"),
      ErrorBody(-32603, "x must be a number") }

InitBodies == { Body("result", <<>>, "serverInfo", 0, "") }

ListBodies ==
    { Body("result", c, "", 0, "") : c \in Catalogs } \cup
    { ErrorBody(-32601, "method not found"), GarbageBody }

CallBodies ==
    { Body("result", <<>>, "30.00", 0, ""), Body("result", <<>>, "null", 0, "") }
    \cup ErrorBodies \cup { GarbageBody }

BodiesFor(request) ==
    CASE request = "initialize" -> InitBodies
      [] request = "tools/list" -> ListBodies
      [] request = "tools/call" -> CallBodies

\* The answer's slot in sent: the handshake's, or the follow-up's.
SlotOf(request) == IF request = "initialize" THEN "init" ELSE "resp"

NoMsg == [len |-> 0, body |-> NoBody]

\* json.Unmarshal(buffer[:n], &resp): the bytes decode when they are the whole
\* JSON text of one answer, with or without its newline, and the provider wrote
\* JSON; the outcome is the decoded body, or "garbage" when Unmarshal fails.
Unmarshal(got, answers) ==
    IF /\ Len(got) = 1
       /\ got[1].lo = 1
       /\ got[1].hi >= answers[got[1].msg].len - 1
    THEN answers[got[1].msg].body
    ELSE GarbageBody

-----------------------------------------------------------------------------
(* Results *)

Digit(d) == <<"0", "1", "2", "3", "4", "5", "6", "7", "8", "9">>[d + 1]

RECURSIVE Digits(_)
Digits(n) == IF n < 10 THEN <<Digit(n)>> ELSE Digits(n \div 10) \o <<Digit(n % 10)>>

\* %d
Itoa(n) == IF n < 0 THEN <<"-">> \o Digits(-n) ELSE Digits(n)

NoResult == [err |-> "none", cause |-> "", text |-> <<>>, value |-> "", tools |-> <<>>]

\* fmt.Errorf("failed to ...: %w", err)
Failure(kind, cause) == [NoResult EXCEPT !.err = kind, !.cause = cause]

\* fmt.Errorf("MCP tool error: %s (code %d)", message, code) (line 298)
ToolError(code, message) ==
    [NoResult EXCEPT !.err = "tool",
                     !.text = <<"MCP tool error: ", message, " (code ", Itoa(code), ")">>]

\* Lines 159-173: getToolInfos decodes result.tools; an answer without it
\* decodes to no tools.
ParseToolInfos(body) ==
    IF body.type = "garbage" THEN Failure("parse tools/list response", "json")
    ELSE [NoResult EXCEPT !.err = "nil", !.tools = body.tools]

\* Lines 284-301: ExecuteTool decodes result and error.
ParseCallResponse(body) ==
    IF body.type = "garbage" THEN Failure("parse tools/call response", "json")
    ELSE IF body.type = "error" THEN ToolError(body.code, body.message)
    ELSE [NoResult EXCEPT !.err = "nil", !.value = body.value]

\* cmd.Process.Kill()
Kill(c) == IF c = "running" THEN "killed" ELSE c

\* A return that leaves the child as it is.
ChildLeftAsIs(op, c) == c

\* The child when an operation that started it returns: getToolInfos calls
\* Kill on each path (lines 129, 137, 145, 152, 157), ExecuteTool defers it
\* (line 239).
ChildAtReturn(op, c) == Kill(c)

-----------------------------------------------------------------------------
(* Requests and the frames that answer them *)

\* The fields ProcessRequest decodes (lines 410-414) and handleToolsCall
\* decodes (lines 456-461), the transport the request came in by, and how far
\* the request decodes: "yes", "no" (json.Unmarshal fails at line 415), or
\* "params" (it fails at line 462: params.name is not a string).
Request(mode, decodes, id, method, name) ==
    [mode |-> mode, decodes |-> decodes, id |-> id, method |-> method,
     name |-> name]

NoReq == Request("none", "no", "", "", <<>>)

Ids == {"7", "q"}

\* The names tools/call is asked for: a tool of the provider b, a tool of a
\* provider that is not there, a name without separator.
CallNames == { <<"b", ".", "a">>, <<"g", ".", "a">>, <<"a">> }

\* The requests that reach the server over a transport.
Requests(mode) ==
    {Request(mode, "no", "", "", <<>>)} \cup
    {Request(mode, "yes", id, m, <<>>) : id \in Ids, m \in {"tools/list", "ping"}} \cup
    {Request(mode, "yes", id, "tools/call", n) : id \in Ids, n \in CallNames} \cup
    {Request(mode, "params", id, "tools/call", <<>>) : id \in Ids}

\* What a request is answered with: a JSON-RPC frame with a result or an
\* error object ("result", "error"), or an error handed to the transport
\* ("transport").
Frame(kind, jsonrpc, id, tools, value, code, message) ==
    [kind |-> kind, jsonrpc |-> jsonrpc, id |-> id, tools |-> tools,
     value |-> value, code |-> code, message |-> message]

NoFrame == Frame("none", "", "", <<>>, "", 0, <<>>)

\* return nil, fmt.Errorf(...) (lines 416, 432, 463)
TransportError(message) == Frame("transport", "", "", <<>>, "", 0, message)

\* A tools/list answer that leaves out the request's id.
ListFrameWithoutId(id, tools) == Frame("result", "2.0", "", tools, "", 0, <<>>)

\* handleToolsList (lines 440-450)
ListFrame(id, tools) == Frame("result", "2.0", id, tools, "", 0, <<>>)

\* A message that names no cause.
ErrorTextWithoutCause(res) == <<"tool execution failed">>

\* %v of the error ExecuteTool returned.
ErrorText(res) ==
    IF res.err = "tool" THEN res.text
    ELSE <<"failed to ", res.err, ": ", res.cause>>

\* A dispatcher that hands the error of ExecuteTool to the transport.
CallFrameHandsErrorOn(id, res) ==
    IF res.err # "nil" THEN TransportError(ErrorText(res))
    ELSE Frame("result", "2.0", id, <<>>, res.value, 0, <<>>)

\* A frame that hands on the code of the provider's error object.
CallFramePassesCode(id, res) ==
    IF res.err # "nil"
    THEN Frame("error", "2.0", id, <<>>, "",
               IF res.err = "tool" THEN sent.resp.body.code ELSE -32000,
               <<"Failed to execute tool: ">> \o ErrorText(res))
    ELSE Frame("result", "2.0", id, <<>>, res.value, 0, <<>>)

\* handleToolsCall (lines 467-489): the frame for what ExecuteTool returned.
CallFrame(id, res) ==
    IF res.err # "nil"
    THEN Frame("error", "2.0", id, <<>>, "", -32000,
               <<"Failed to execute tool: ">> \o ErrorText(res))
    ELSE Frame("result", "2.0", id, <<>>, res.value, 0, <<>>)

\* An answer to an unknown method as a JSON-RPC frame.
OtherFrameAsJSONRPC(id, method) ==
    Frame("error", "2.0", id, <<>>, "", -32601, <<"method not found: ", method>>)

\* ProcessRequest for any other method (line 432).
OtherFrame(id, method) == TransportError(<<"method not implemented: ", method>>)

-----------------------------------------------------------------------------
(* getToolInfos (lines 103-174) and ExecuteTool (lines 215-302) *)

SessInit ==
    /\ sop = "none"
    /\ spc = "idle"
    /\ child = "none"
    /\ fds = "none"
    /\ ctx = "live"
    /\ ios = <<>>
    /\ served = 0
    /\ todo = <<>>
    /\ pipe = <<>>
    /\ sent = [init |-> NoMsg, resp |-> NoMsg]
    /\ sres = NoResult

\* The local variables of a call of getToolInfos or ExecuteTool that has not
\* begun.
NewSession ==
    [sop |-> "none", spc |-> "idle", child |-> "none", fds |-> "none",
     ctx |-> "live", ios |-> <<>>, served |-> 0, todo |-> <<>>, pipe |-> <<>>,
     sent |-> [init |-> NoMsg, resp |-> NoMsg], sres |-> NoResult]

\* A call that has not begun, as it waits for its turn.
NewParked == [session |-> NewSession, target |-> <<>>]

Writes == SelectSeq(ios, LAMBDA e : e.op = "write")

Reads == SelectSeq(ios, LAMBDA e : e.op = "read")

FollowUp(op) == IF op = "discover" THEN "tools/list" ELSE "tools/call"

\* The operation returns an error after the child was started.
FailAfterStart(kind, cause) ==
    /\ sres' = Failure(kind, cause)
    /\ child' = ChildAtReturn(sop, child)
    /\ spc' = "done"

\* getToolInfos or ExecuteTool is entered; ExecuteTool has resolved the name
\* (line 216); the command and its two pipes are made (lines 108-117,
\* 222-231).
SessBegin ==
    /\ spc = "idle"
    /\ \E op \in {"discover", "invoke"} : sop' = op
    /\ fds' = "open"
    /\ spc' = "start"
    /\ UNCHANGED <<child, ctx, ios, served, todo, pipe, sent, sres, regVars, auxVars>>

\* ExecuteTool returns the error of GetMCPForTool (lines 216-219).
SessResolveError ==
    /\ spc = "idle"
    /\ sop' = "invoke"
    /\ spc' = "done"
    /\ sres' = Failure("resolve", "notfound")
    /\ UNCHANGED <<child, fds, ctx, ios, served, todo, pipe, sent, regVars, auxVars>>

\* StdinPipe or StdoutPipe fails (lines 109-117, 223-231); the stdin pipe made
\* before StdoutPipe failed stays open.
SessPipeError ==
    /\ spc = "idle"
    /\ \E op \in {"discover", "invoke"} : sop' = op
    /\ \E which \in {"stdin pipe", "stdout pipe"} :
         /\ sres' = Failure(which, "os")
         /\ fds' = IF which = "stdout pipe" THEN "open" ELSE "none"
    /\ spc' = "done"
    /\ UNCHANGED <<child, ctx, ios, served, todo, pipe, sent, regVars, auxVars>>

\* cmd.Start() fails (lines 120-122, 234-236): the context is already done,
\* or the executable cannot be run.  Start closes the pipes it had made.
SessStartError ==
    /\ spc = "start"
    /\ sres' = Failure("start MCP", IF ctx = "done" THEN "ctx" ELSE "os")
    /\ fds' = "closed"
    /\ spc' = "done"
    /\ UNCHANGED <<sop, child, ctx, ios, served, todo, pipe, sent, regVars, auxVars>>

\* cmd.Start() succeeds.
SessStart ==
    /\ spc = "start"
    /\ ctx = "live"
    /\ child' = "running"
    /\ spc' = "writeInit"
    /\ UNCHANGED <<sop, fds, ctx, ios, served, todo, pipe, sent, sres, regVars, auxVars>>

\* stdin.Write of the initialize request (lines 126-131, 242-246) and of the
\* follow-up request (lines 142-147, 255-276).
SessWrite ==
    /\ spc \in {"writeInit", "writeReq"}
    /\ LET request == IF spc = "writeInit" THEN "initialize" ELSE FollowUp(sop)
       IN  IF child = "running"
           THEN /\ ios' = Append(ios, [op |-> "write", msg |-> request, got |-> <<>>])
                /\ spc' = IF spc = "writeInit" THEN "readInit" ELSE "readResp"
                /\ UNCHANGED <<child, sres>>
           ELSE /\ FailAfterStart("send " \o request, "EPIPE")
                /\ UNCHANGED ios
    /\ UNCHANGED <<sop, fds, ctx, served, todo, pipe, sent, regVars, auxVars>>

\* stdout.Read(buffer) (lines 133-139, 149-154, 248-253, 278-282): one call,
\* which returns what the pipe holds, up to the buffer's size, or fails at
\* end of file; it blocks while the pipe is empty and the child runs.
SessRead ==
    /\ spc \in {"readInit", "readResp"}
    /\ pipe # <<>> \/ child # "running"
    /\ IF pipe # <<>>
       THEN /\ ios' = Append(ios, [op |-> "read", msg |-> "", got |-> ReadBuffer(pipe)])
            /\ pipe' = DropBytes(pipe, BufferSize)
            /\ spc' = IF spc = "readInit" THEN "writeReq" ELSE "parse"
            /\ UNCHANGED <<child, sres>>
       ELSE /\ FailAfterStart(IF spc = "readInit" THEN "read initialize response"
                              ELSE "read response", "EOF")
            /\ UNCHANGED <<ios, pipe>>
    /\ UNCHANGED <<sop, fds, ctx, served, todo, sent, regVars, auxVars>>

\* The rest of the operation: the child is killed, the bytes of the second
\* read are decoded and the result is returned.
SessFinish ==
    /\ spc = "parse"
    /\ LET body == Unmarshal(Reads[Len(Reads)].got, sent)
       IN  sres' = IF sop = "discover" THEN ParseToolInfos(body)
                   ELSE ParseCallResponse(body)
    /\ child' = ChildAtReturn(sop, child)
    /\ spc' = "done"
    /\ UNCHANGED <<sop, fds, ctx, ios, served, todo, pipe, sent, regVars, auxVars>>

-----------------------------------------------------------------------------
(* The child process and the context *)

\* The provider takes up the next request and answers it: it writes the
\* first piece of the answer at once.
ChildAnswer ==
    /\ child = "running"
    /\ served < Len(Writes)
    /\ LET request == Writes[served + 1].msg
           slot == SlotOf(request)
       IN  \E len \in MsgLens, body \in BodiesFor(request) :
             \E pieces \in Pieces(slot, len) :
               /\ sent' = [sent EXCEPT ![slot] = [len |-> len, body |-> body]]
               /\ pipe' = PipeAppend(pipe, Head(pieces))
               /\ todo' = Tail(pieces)
    /\ served' = served + 1
    /\ UNCHANGED <<sop, spc, child, fds, ctx, ios, sres, regVars, auxVars>>

\* The provider writes the rest of an answer.
ChildWrite ==
    /\ child = "running"
    /\ todo # <<>>
    /\ pipe' = PipeAppend(pipe, Head(todo))
    /\ todo' = Tail(todo)
    /\ UNCHANGED <<sop, spc, child, fds, ctx, ios, served, sent, sres, regVars, auxVars>>

\* The provider exits on its own.
ChildExit ==
    /\ child = "running"
    /\ child' = "exited"
    /\ todo' = <<>>
    /\ UNCHANGED <<sop, spc, fds, ctx, ios, served, pipe, sent, sres, regVars, auxVars>>

\* The context is done while the operation runs: the caller of ExecuteTool
\* cancels it, or the 30 s of getToolInfos (line 104) are over.
CtxDone ==
    /\ spc \notin {"idle", "done"}
    /\ ctx = "live"
    /\ ctx' = "done"
    /\ UNCHANGED <<sop, spc, child, fds, ios, served, todo, pipe, sent, sres, regVars, auxVars>>

\* A command made without the context: nothing kills its process.
CtxKillNever == FALSE /\ UNCHANGED vars

\* exec.CommandContext (lines 108, 222): once the context is done the command
\* kills the process it started.
CtxKill ==
    /\ ctx = "done"
    /\ child = "running"
    /\ child' = "killed"
    /\ todo' = <<>>
    /\ UNCHANGED <<sop, spc, fds, ctx, ios, served, pipe, sent, sres, regVars, auxVars>>

-----------------------------------------------------------------------------
(* LoadMCPs with the discovery it runs for each candidate (line 87) *)

\* The session variables take the values of the record st.
SetSession(st) ==
    /\ sop' = st.sop
    /\ spc' = st.spc
    /\ child' = st.child
    /\ fds' = st.fds
    /\ ctx' = st.ctx
    /\ ios' = st.ios
    /\ served' = st.served
    /\ todo' = st.todo
    /\ pipe' = st.pipe
    /\ sent' = st.sent
    /\ sres' = st.sres

\* What LoadMCPs gets from getToolInfos (line 87).
DiscoveryResult(res) == [err |-> res.err # "nil", tools |-> res.tools]

\* WalkDir hands an executable file to the callback, which calls getToolInfos
\* (lines 54-87): a context with the timeout, the command and its pipes are
\* made (lines 104-117).
DiscoverBegin ==
    /\ lpc = "walking"
    /\ spc = "idle"
    /\ \E i \in (walkPos + 1)..Len(Universe) : walkPos' = i
    /\ \E which \in {"none", "stdin pipe", "stdout pipe"} :
         SetSession([NewSession EXCEPT
            !.sop = "discover",
            !.spc = IF which = "none" THEN "start" ELSE "done",
            !.fds = IF which = "stdin pipe" THEN "none" ELSE "open",
            !.sres = IF which = "none" THEN NoResult ELSE Failure(which, "os")])
    /\ UNCHANGED <<mcpMap, mutex, lpc, scanned, loadRet, walkFault, rpc, rcall,
                   rres, auxVars>>

\* getToolInfos has returned: the callback stores the candidate (lines 88-98)
\* and the walk goes on.
DiscoverEnd ==
    /\ lpc = "walking"
    /\ sop = "discover"
    /\ spc = "done"
    /\ LET path == Universe[walkPos]
           disc == DiscoveryResult(sres)
       IN  /\ mcpMap' = Callback(mcpMap, path, "exec", disc).map
           /\ scanned' = Append(scanned, [name |-> NameOf(path), path |-> path,
                                          disc |-> disc])
    /\ SetSession(NewSession)
    /\ UNCHANGED <<mutex, lpc, walkPos, loadRet, walkFault, rpc, rcall, rres,
                   auxVars>>

\* The callback is called for an entry that is not run: the walk's error, a
\* directory, a file whose Info fails or that has no executable bit.
WalkVisit ==
    /\ spc = "idle"
    /\ LoadVisit
    /\ scanned' = scanned

\* The walk is over while no discovery runs.
WalkReturn ==
    /\ spc = "idle"
    /\ LoadReturn

\* A provider that writes each answer at once, and a short one.
ChildAnswerAtOnce ==
    /\ ChildAnswer
    /\ todo' = <<>>
    /\ \A slot \in {"init", "resp"} : sent'[slot].len < BufferSize

-----------------------------------------------------------------------------
(* MCPServer: NewMCPServer, ServeHTTP with ProcessRequest, ServeStdio *)

\* NewMCPServer calls LoadMCPs once, before any request is served (line 332).
StartupLoad ==
    /\ req = NoReq
    /\ loadRet = "none"
    /\ LoadCall

\* A request arrives at the server that NewMCPServer returned: LoadMCPs had
\* returned nil (lines 332-334).  A new ExecuteTool call has its own locals.
Receive ==
    /\ lpc = "idle"
    /\ loadRet = "nil"
    /\ req = NoReq \/ frame # NoFrame
    /\ \E mode \in {"http", "stdio"} : \E r \in Requests(mode) : req' = r
    /\ frame' = NoFrame
    /\ target' = <<>>
    /\ SetSession(NewSession)
    /\ UNCHANGED <<regVars, prevMap, proxyVars, cur, parked>>

\* The request waits for ProcessRequest's answer.
Pending(method, decodes) ==
    /\ req.mode = "http"
    /\ frame = NoFrame
    /\ req.decodes = decodes
    /\ req.method = method

\* json.Unmarshal of the raw request fails (lines 415-417).
ServeUndecodable ==
    /\ Pending("", "no")
    /\ frame' = TransportError(<<"failed to parse request">>)
    /\ UNCHANGED <<regVars, sessVars, prevMap, proxyVars, req, cur, parked, target>>

\* tools/list (lines 420-422, 436-451): GetAllTools under the read lock.
ServeToolsList ==
    /\ Pending("tools/list", "yes")
    /\ CanRLock(mutex)
    /\ \E order \in Orders(DOMAIN mcpMap) :
         frame' = ListFrame(req.id, GetAllTools(mcpMap, order))
    /\ mcpMap' = MapAfterGetAllTools(mcpMap)
    /\ UNCHANGED <<mutex, lpc, walkPos, scanned, loadRet, walkFault, rpc, rcall,
                   rres, sessVars, prevMap, proxyVars, req, cur, parked, target>>

\* Any other method (line 432).
ServeOther ==
    /\ req.method \notin {"tools/list", "tools/call"}
    /\ Pending(req.method, "yes")
    /\ frame' = OtherFrame(req.id, req.method)
    /\ UNCHANGED <<regVars, sessVars, prevMap, proxyVars, req, cur, parked, target>>

\* tools/call whose params do not decode (lines 462-464).
ServeCallUndecodable ==
    /\ Pending("tools/call", "params")
    /\ frame' = TransportError(<<"failed to parse request">>)
    /\ UNCHANGED <<regVars, sessVars, prevMap, proxyVars, req, cur, parked, target>>

\* tools/call: ExecuteTool returns the error of GetMCPForTool (lines 216-219).
ServeCallResolveError ==
    /\ Pending("tools/call", "yes")
    /\ CanRLock(mutex)
    /\ GetMCPForTool(mcpMap, req.name).err # "nil"
    /\ SessResolveError

\* tools/call: ExecuteTool has resolved the name and makes the command for
\* the endpoint's path and its pipes (lines 216-231).
ServeCallBegin ==
    /\ Pending("tools/call", "yes")
    /\ spc = "idle"
    /\ CanRLock(mutex)
    /\ GetMCPForTool(mcpMap, req.name).err = "nil"
    /\ target' = GetMCPForTool(mcpMap, req.name).mcpInfo.Path
    /\ \E which \in {"none", "stdin pipe", "stdout pipe"} :
         SetSession([NewSession EXCEPT
            !.sop = "invoke",
            !.spc = IF which = "none" THEN "start" ELSE "done",
            !.fds = IF which = "stdin pipe" THEN "none" ELSE "open",
            !.sres = IF which = "none" THEN NoResult ELSE Failure(which, "os")])
    /\ UNCHANGED <<regVars, prevMap, proxyVars, req, frame, cur, parked>>

\* ExecuteTool has returned: handleToolsCall answers (lines 468-489).
ServeCallReturn ==
    /\ Pending("tools/call", "yes")
    /\ sop = "invoke"
    /\ spc = "done"
    /\ frame' = CallFrame(req.id, sres)
    /\ UNCHANGED <<regVars, sessVars, prevMap, proxyVars, req, cur, parked, target>>

ServerInfo == <<"s", "e", "r", "v", "e", "r", "_", "i", "n", "f", "o">>

\* The tools registered with the library's server (lines 355-364).
RegisteredTools == <<ToolInfo(ServerInfo, "Get information about the MCP server")>>

\* ServeStdio hands the library's server to the library (lines 402-405): that
\* server answers from the tools registered with it, and for methods of its
\* own; the manager is not asked.
StdioAnswer(r) ==
    IF r.decodes = "no"
    THEN Frame("error", "2.0", "", <<>>, "", -32700, <<"parse error">>)
    ELSE IF r.method = "tools/list"
    THEN Frame("result", "2.0", r.id, RegisteredTools, "", 0, <<>>)
    ELSE IF r.method = "tools/call"
    THEN IF r.decodes = "yes" /\ r.name = ServerInfo
         THEN Frame("result", "2.0", r.id, <<>>, "Running in MCP server mode", 0, <<>>)
         ELSE Frame("error", "2.0", r.id, <<>>, "", -32602, <<"tool not found">>)
    ELSE Frame("result", "2.0", r.id, <<>>, "{}", 0, <<>>)

\* A request is answered in stdio mode.
ServeStdio ==
    /\ req.mode = "stdio"
    /\ frame = NoFrame
    /\ frame' = StdioAnswer(req)
    /\ UNCHANGED <<regVars, sessVars, prevMap, proxyVars, req, cur, parked, target>>

-----------------------------------------------------------------------------
(* mcp-proxy: MCPProxy.ProcessRequest (lines 528-560) and main (lines 562-628) *)

\* How many messages the client writes to the proxy's stdin at most.
MaxMessages == 3

\* How many of the client's messages fit the buffer of one stdin.Read
\* (line 593).
ProxyBufferSize == 2

\* What a forward can end with: the body of a 200 response, or an error of
\* httpClient.Do, of the status check, or of io.ReadAll (lines 541-557).
ForwardOutcomes == {"ok", "transport", "status", "body"}

\* The body of the response to the i-th POST.
ResponseTo(i) == [to |-> i]

NoResponse == [to |-> 0]

ProxyInit ==
    /\ ppc = "select"
    /\ pctx = "live"
    /\ signals = "none"
    /\ stdin = [buf |-> <<>>, written |-> 0, state |-> "open"]
    /\ buffer = <<>>
    /\ response = NoResponse
    /\ stdout = <<>>
    /\ chunks = <<>>
    /\ posts = <<>>

\* The client writes one more message to the proxy's stdin.
ClientSend ==
    /\ stdin.state = "open"
    /\ stdin.written < MaxMessages
    /\ stdin' = [stdin EXCEPT !.buf = Append(@, stdin.written + 1),
                              !.written = @ + 1]
    /\ UNCHANGED <<ppc, pctx, signals, buffer, response, stdout, chunks, posts>>
    /\ UNCHANGED <<regVars, sessVars, prevMap, req, frame, cur, parked, target>>

\* The client closes the proxy's stdin, or stdin breaks.
ClientClose ==
    /\ stdin.state = "open"
    /\ \E st \in {"eof", "error"} : stdin' = [stdin EXCEPT !.state = st]
    /\ UNCHANGED <<ppc, pctx, signals, buffer, response, stdout, chunks, posts>>
    /\ UNCHANGED <<regVars, sessVars, prevMap, req, frame, cur, parked, target>>

\* SIGINT or SIGTERM is delivered to the signals channel (lines 578-579).
SignalArrives ==
    /\ ppc # "exited"
    /\ signals = "none"
    /\ signals' = "pending"
    /\ UNCHANGED <<ppc, pctx, stdin, buffer, response, stdout, chunks, posts>>
    /\ UNCHANGED <<regVars, sessVars, prevMap, req, frame, cur, parked, target>>

\* The goroutine of lines 580-584 takes the signal and calls cancel().
SignalHandler ==
    /\ ppc # "exited"
    /\ signals = "pending"
    /\ signals' = "taken"
    /\ pctx' = "done"
    /\ UNCHANGED <<ppc, stdin, buffer, response, stdout, chunks, posts>>
    /\ UNCHANGED <<regVars, sessVars, prevMap, req, frame, cur, parked, target>>

\* The select of lines 596-600: main returns when ctx is done, and else goes
\* on to the default case.
ProxySelect ==
    /\ ppc = "select"
    /\ ppc' = IF pctx = "done" THEN "exited" ELSE "read"
    /\ UNCHANGED <<pctx, signals, stdin, buffer, response, stdout, chunks, posts>>
    /\ UNCHANGED <<regVars, sessVars, prevMap, req, frame, cur, parked, target>>

\* stdin.Read(buffer) (lines 602-610): it blocks while stdin is open and
\* empty, whatever ctx is; it returns what stdin holds, up to the buffer's
\* size, and at end of file or on an error main cancels and returns.
ProxyRead ==
    /\ ppc = "read"
    /\ stdin.buf # <<>> \/ stdin.state # "open"
    /\ IF stdin.buf # <<>>
       THEN LET n == IF Len(stdin.buf) < ProxyBufferSize THEN Len(stdin.buf)
                     ELSE ProxyBufferSize
            IN  /\ buffer' = SubSeq(stdin.buf, 1, n)
                /\ chunks' = Append(chunks, SubSeq(stdin.buf, 1, n))
                /\ stdin' = [stdin EXCEPT !.buf = SubSeq(@, n + 1, Len(@))]
                /\ ppc' = "forward"
                /\ UNCHANGED pctx
       ELSE /\ pctx' = "done"
            /\ ppc' = "exited"
            /\ UNCHANGED <<stdin, buffer, chunks>>
    /\ UNCHANGED <<signals, response, stdout, posts>>
    /\ UNCHANGED <<regVars, sessVars, prevMap, req, frame, cur, parked, target>>

\* proxy.ProcessRequest(ctx, buffer[:n]) (line 614) takes p.mu and sends the
\* POST (lines 529-541); a POST made when ctx is done fails in Do.
ProxyForwardBegin ==
    /\ ppc = "forward"
    /\ posts' = Append(posts, [chunk |-> buffer,
                               outcome |-> IF pctx = "done" THEN "cancelled"
                                           ELSE "pending"])
    /\ ppc' = "await"
    /\ UNCHANGED <<pctx, signals, stdin, buffer, response, stdout, chunks>>
    /\ UNCHANGED <<regVars, sessVars, prevMap, req, frame, cur, parked, target>>

\* A main that gives up at the first forward that fails.
ProxyForwardEndStopsOnError ==
    /\ ppc = "await"
    /\ \E o \in ForwardOutcomes :
         /\ posts[Len(posts)].outcome = "cancelled" => o = "transport"
         /\ posts' = [posts EXCEPT ![Len(posts)].outcome = o]
         /\ IF o = "ok"
            THEN /\ response' = ResponseTo(Len(posts))
                 /\ ppc' = "write"
                 /\ UNCHANGED pctx
            ELSE /\ response' = NoResponse
                 /\ ppc' = "exited"
                 /\ pctx' = "done"
    /\ UNCHANGED <<signals, stdin, buffer, stdout, chunks>>
    /\ UNCHANGED <<regVars, sessVars, prevMap, req, frame, cur, parked, target>>

\* ProcessRequest returns (lines 541-559): with the body of a 200 response,
\* which main goes on to write, or with an error, after which main continues
\* with the next round of the loop (lines 615-618).
ProxyForwardEnd ==
    /\ ppc = "await"
    /\ \E o \in ForwardOutcomes :
         /\ posts[Len(posts)].outcome = "cancelled" => o = "transport"
         /\ posts' = [posts EXCEPT ![Len(posts)].outcome = o]
         /\ IF o = "ok"
            THEN /\ response' = ResponseTo(Len(posts))
                 /\ ppc' = "write"
            ELSE /\ response' = NoResponse
                 /\ ppc' = "select"
    /\ UNCHANGED <<pctx, signals, stdin, buffer, stdout, chunks>>
    /\ UNCHANGED <<regVars, sessVars, prevMap, req, frame, cur, parked, target>>

\* stdout.Write(response) (lines 621-626): when it fails main cancels and
\* returns.
ProxyWrite ==
    /\ ppc = "write"
    /\ \/ /\ stdout' = Append(stdout, response)
          /\ ppc' = "select"
          /\ UNCHANGED pctx
       \/ /\ pctx' = "done"
          /\ ppc' = "exited"
          /\ UNCHANGED stdout
    /\ UNCHANGED <<signals, stdin, buffer, response, chunks, posts>>
    /\ UNCHANGED <<regVars, sessVars, prevMap, req, frame, cur, parked, target>>

-----------------------------------------------------------------------------
(* Specifications *)

\* No reload recorded, no request taken up, and every process session but
\* the first waiting, not begun.
AuxInit ==
    /\ prevMap = EmptyMap
    /\ req = NoReq
    /\ frame = NoFrame
    /\ cur = 1
    /\ parked = [s \in Sessions \ {1} |-> NewParked]
    /\ target = <<>>

Init == RegInit /\ SessInit /\ AuxInit /\ ProxyInit

\* The registry under concurrent callers.
Next ==
    \/ LoadCall
    \/ LoadAcquire
    \/ LoadVisit
    \/ LoadReturn
    \/ \E r \in Readers : ReadCall(r, ConcurrentNames)
    \/ \E r \in Readers : ReadRLock(r)
    \/ \E r \in Readers : ReadAllTools(r)
    \/ \E r \in Readers : ReadMCPForTool(r)
    \/ \E r \in Readers : ReadReturn(r)

Spec == Init /\ [][Next]_vars

\* The registry and one caller, over all the names.
NextRead ==
    \/ LoadCall
    \/ LoadAcquire
    \/ LoadVisit
    \/ LoadReturn
    \/ ReadCall(1, ToolNames)
    \/ ReadRLock(1)
    \/ ReadAllTools(1)
    \/ ReadMCPForTool(1)
    \/ ReadReturn(1)

SpecRead == Init /\ [][NextRead]_vars

\* One process session.
NextSession ==
    \/ SessBegin
    \/ SessResolveError
    \/ SessPipeError
    \/ SessStartError
    \/ SessStart
    \/ SessWrite
    \/ SessRead
    \/ SessFinish
    \/ ChildAnswer
    \/ ChildWrite
    \/ ChildExit
    \/ CtxDone
    \/ CtxKill

SpecSession == Init /\ [][NextSession]_vars

\* A scan of a directory that holds one entry.
LoadVisitOne ==
    /\ LoadVisit
    /\ walkPos' = Len(Universe)

\* The registry's lock under reloads and callers that go on.
NextLock ==
    \/ LoadCall
    \/ LoadAcquire
    \/ LoadVisitOne
    \/ LoadReturn
    \/ \E r \in Readers : ReadCall(r, ConcurrentNames)
    \/ \E r \in Readers : ReadRLock(r)
    \/ \E r \in Readers : ReadAllTools(r)
    \/ \E r \in Readers : ReadMCPForTool(r)
    \/ \E r \in Readers : ReadReturn(r)

\* A goroutine that can go on does: Lock returns once the readers have left,
\* the walk ends, a body under the read lock runs and returns.  Whether and
\* when LoadMCPs or a reader is called is left open.  RLock is strongly fair:
\* sync.RWMutex.Unlock releases every reader that waits, and a later Lock
\* waits for those readers, so a reader that waited through one reload is
\* not overtaken by the next.
LockFairness ==
    /\ WF_vars(LoadAcquire)
    /\ WF_vars(LoadReturn)
    /\ \A r \in Readers :
         /\ SF_vars(ReadRLock(r))
         /\ WF_vars(ReadAllTools(r) \/ ReadMCPForTool(r))
         /\ WF_vars(ReadReturn(r))

SpecLock == Init /\ [][NextLock]_vars /\ LockFairness

\* The server: one load, then one request after the other.
NextServe ==
    \/ StartupLoad
    \/ LoadAcquire
    \/ LoadVisit
    \/ LoadReturn
    \/ Receive
    \/ ServeUndecodable
    \/ ServeToolsList
    \/ ServeOther
    \/ ServeCallUndecodable
    \/ ServeCallResolveError
    \/ ServeCallBegin
    \/ ServeCallReturn
    \/ ServeStdio
    \/ SessStartError
    \/ SessStart
    \/ SessWrite
    \/ SessRead
    \/ SessFinish
    \/ ChildAnswerAtOnce
    \/ ChildExit
    \/ CtxDone
    \/ CtxKill

SpecServe == Init /\ [][NextServe]_vars

\* The local variables of the call whose turn it is.
CurrentSession ==
    [sop |-> sop, spc |-> spc, child |-> child, fds |-> fds, ctx |-> ctx,
     ios |-> ios, served |-> served, todo |-> todo, pipe |-> pipe,
     sent |-> sent, sres |-> sres]

\* The call s with the executable it was begun for.
SessionOf(s) ==
    IF s = cur THEN [session |-> CurrentSession, target |-> target]
    ELSE parked[s]

\* The scheduler gives the turn to s, whose call takes over the process and
\* the pipes of the call that had the turn.
SwitchSharesChild(s) ==
    /\ s \in Sessions \ {cur}
    /\ cur' = s
    /\ SetSession([parked[s].session EXCEPT !.child = child, !.ios = ios,
                                            !.served = served, !.todo = todo,
                                            !.pipe = pipe, !.sent = sent])
    /\ target' = parked[s].target
    /\ parked' = [t \in Sessions \ {s} |->
                    IF t = cur THEN [session |-> CurrentSession, target |-> target]
                    ELSE parked[t]]
    /\ UNCHANGED <<regVars, prevMap, proxyVars, req, frame>>

\* Each request over HTTP is served in a goroutine of its own (lines 367-399),
\* and a reload's discovery in the goroutine of its caller: the scheduler
\* gives the turn to the call s, at any point of the call that had it.
Switch(s) ==
    /\ s \in Sessions \ {cur}
    /\ cur' = s
    /\ SetSession(parked[s].session)
    /\ target' = parked[s].target
    /\ parked' = [t \in Sessions \ {s} |->
                    IF t = cur THEN [session |-> CurrentSession, target |-> target]
                    ELSE parked[t]]
    /\ UNCHANGED <<regVars, prevMap, proxyVars, req, frame>>

\* The calls that run side by side: a discovery, and invocations of tools of
\* the same and of another provider.
ConcurrentCalls ==
    { [op |-> "discover", path |-> <<"a">>],
      [op |-> "invoke", path |-> <<"a">>],
      [op |-> "invoke", path |-> <<"a", ".", "x">>] }

\* getToolInfos(path) is entered, or ExecuteTool has resolved the name to the
\* endpoint with the path (line 216); the command and its pipes are made
\* (lines 108-117, 222-231).
ConcBegin ==
    /\ spc = "idle"
    /\ \E c \in ConcurrentCalls :
         /\ sop' = c.op
         /\ target' = c.path
    /\ fds' = "open"
    /\ spc' = "start"
    /\ UNCHANGED <<child, ctx, ios, served, todo, pipe, sent, sres>>
    /\ UNCHANGED <<regVars, prevMap, proxyVars, req, frame, cur, parked>>

\* The provider answers at once, in one short piece, with a result.
ChildAnswerResult ==
    /\ ChildAnswerAtOnce
    /\ sent'.resp.body.type \in {"none", "result"}

\* Calls side by side, each with the provider process it starts.
NextConcurrent ==
    \/ \E s \in Sessions : Switch(s)
    \/ ConcBegin
    \/ SessResolveError
    \/ SessStartError
    \/ SessStart
    \/ SessWrite
    \/ SessRead
    \/ SessFinish
    \/ ChildAnswerResult

SpecConcurrent == Init /\ [][NextConcurrent]_vars

\* mcp-proxy with its client and the signals it can get.
NextProxy ==
    \/ ClientSend
    \/ ClientClose
    \/ SignalArrives
    \/ SignalHandler
    \/ ProxySelect
    \/ ProxyRead
    \/ ProxyForwardBegin
    \/ ProxyForwardEnd
    \/ ProxyWrite

\* The goroutines of mcp-proxy are scheduled as long as they can run, the
\* HTTP client returns within its timeout (lines 520-522) and a write to
\* stdout returns; the client and the signals are under no obligation.
ProxyFairness ==
    /\ WF_vars(SignalHandler)
    /\ WF_vars(ProxySelect)
    /\ WF_vars(ProxyRead)
    /\ WF_vars(ProxyForwardBegin)
    /\ WF_vars(ProxyForwardEnd)
    /\ WF_vars(ProxyWrite)

SpecProxy == Init /\ [][NextProxy]_vars /\ ProxyFairness

\* LoadMCPs is called, at startup or for a reload; the map the call finds is
\* recorded.
ReloadCall ==
    /\ lpc = "idle"
    /\ mutex.writer = "none"
    /\ lpc' = "lockwait"
    /\ mutex' = LockAnnounce(mutex)
    /\ prevMap' = mcpMap
    /\ UNCHANGED <<mcpMap, walkPos, scanned, loadRet, walkFault, rpc, rcall, rres>>
    /\ UNCHANGED <<sessVars, proxyVars, req, frame, cur, parked, target>>

\* LoadMCPs called again and again, no reader about.
NextReload ==
    \/ ReloadCall
    \/ LoadAcquire
    \/ LoadVisit
    \/ LoadReturn

SpecReload == Init /\ [][NextReload]_vars

\* GetMCPForTool has returned an endpoint to ExecuteTool, which goes on with
\* the read lock still held.
InvokeBeginKeepsRLock ==
    /\ spc = "idle"
    /\ rpc[1] = "rheld"
    /\ rcall[1].kind = "GetMCPForTool"
    /\ rres[1].out.err = "nil"
    /\ rpc' = [rpc EXCEPT ![1] = "idle"]
    /\ rcall' = [rcall EXCEPT ![1] = NoCall]
    /\ rres' = [rres EXCEPT ![1] = NoRes]
    /\ sop' = "invoke"
    /\ target' = rres[1].out.mcpInfo.Path
    /\ fds' = "open"
    /\ spc' = "start"
    /\ UNCHANGED <<mcpMap, mutex, lpc, walkPos, scanned, loadRet, walkFault>>
    /\ UNCHANGED <<child, ctx, ios, served, todo, pipe, sent, sres>>
    /\ UNCHANGED <<prevMap, proxyVars, req, frame, cur, parked>>

\* GetMCPForTool returns an endpoint to ExecuteTool and its deferred RUnlock
\* runs (lines 196, 211, 216); ExecuteTool makes the command for the
\* endpoint's Path and its pipes (lines 222-231).
InvokeBegin ==
    /\ spc = "idle"
    /\ rpc[1] = "rheld"
    /\ rcall[1].kind = "GetMCPForTool"
    /\ rres[1].out.err = "nil"
    /\ mutex' = RUnlock(mutex, 1)
    /\ rpc' = [rpc EXCEPT ![1] = "idle"]
    /\ rcall' = [rcall EXCEPT ![1] = NoCall]
    /\ rres' = [rres EXCEPT ![1] = NoRes]
    /\ sop' = "invoke"
    /\ target' = rres[1].out.mcpInfo.Path
    /\ fds' = "open"
    /\ spc' = "start"
    /\ UNCHANGED <<mcpMap, lpc, walkPos, scanned, loadRet, walkFault>>
    /\ UNCHANGED <<child, ctx, ios, served, todo, pipe, sent, sres>>
    /\ UNCHANGED <<prevMap, proxyVars, req, frame, cur, parked>>

\* ExecuteTool has returned to its caller.
InvokeReturn ==
    /\ sop = "invoke"
    /\ spc = "done"
    /\ SetSession(NewSession)
    /\ target' = <<>>
    /\ UNCHANGED <<regVars, prevMap, proxyVars, req, frame, cur, parked>>

\* The walk meets an executable that is stored under the identifier a, and
\* whose discovery returns tools.
LoadVisitProvider ==
    /\ LoadVisit
    /\ scanned' # scanned
    /\ scanned'[Len(scanned')].name = <<"a">>
    /\ ~scanned'[Len(scanned')].disc.err

\* Invocations of a tool of the provider a, one after another, and reloads
\* beside them.
NextInFlight ==
    \/ ReloadCall
    \/ LoadAcquire
    \/ LoadVisitProvider
    \/ LoadReturn
    \/ spc = "idle" /\ ReadCall(1, ConcurrentNames) /\ rcall'[1].kind = "GetMCPForTool"
    \/ ReadRLock(1)
    \/ ReadMCPForTool(1)
    \/ ReadReturn(1) /\ rres[1].out.err # "nil"
    \/ InvokeBegin
    \/ SessStartError
    \/ SessStart
    \/ SessWrite
    \/ SessRead
    \/ SessFinish
    \/ ChildAnswerResult
    \/ InvokeReturn

SpecInFlight == Init /\ [][NextInFlight]_vars

\* A reload that runs a discovery for each candidate it meets.
NextDiscover ==
    \/ LoadCall
    \/ LoadAcquire
    \/ DiscoverBegin
    \/ DiscoverEnd
    \/ WalkVisit
    \/ WalkReturn
    \/ SessStartError
    \/ SessStart
    \/ SessWrite
    \/ SessRead
    \/ SessFinish
    \/ ChildAnswerAtOnce
    \/ ChildExit
    \/ CtxDone
    \/ CtxKill

\* LoadMCPs and getToolInfos go on whenever they can: a call that can return
\* returns.  The 30 s of the context pass (line 104), and the command then
\* kills its process.  What the provider does is left open: it may never
\* answer and never exit.
DiscoverFairness ==
    /\ WF_vars(LoadAcquire)
    /\ WF_vars(DiscoverEnd)
    /\ WF_vars(WalkReturn)
    /\ WF_vars(SessStart \/ SessStartError)
    /\ WF_vars(SessWrite)
    /\ WF_vars(SessRead)
    /\ WF_vars(SessFinish)
    /\ WF_vars(CtxDone)
    /\ WF_vars(CtxKill)

SpecDiscover == Init /\ [][NextDiscover]_vars /\ DiscoverFairness

-----------------------------------------------------------------------------
(* Properties of the registry *)

\* The snapshot a scan amounts to: one endpoint per identifier met, holding the
\* path and the tools of the candidate visited last under that identifier, and
\* no tools when that candidate's discovery failed.
LastOf(scan, n) == SetMax({i \in DOMAIN scan : scan[i].name = n})

SnapshotOf(scan) ==
    [n \in {scan[i].name : i \in DOMAIN scan} |->
        [Name |-> n,
         Path |-> scan[LastOf(scan, n)].path,
         ToolInfos |-> IF scan[LastOf(scan, n)].disc.err THEN <<>>
                       ELSE scan[LastOf(scan, n)].disc.tools]]

HoldsRLock(r) == rpc[r] \in {"rlocked", "rheld"}

\* C1: a caller of GetAllTools or GetMCPForTool runs its body only while no
\* LoadMCPs is between clearing the map and returning, and what it reads is
\* the whole snapshot of a finished scan (the one before the reload in flight,
\* or the one it left): never a map that is cleared and partly refilled.
C1_ReadsSeeWholeSnapshot ==
    \A r \in Readers :
        /\ HoldsRLock(r) => (lpc # "walking" /\ mcpMap = SnapshotOf(scanned))
        /\ rpc[r] = "rheld" => rres[r].seen = SnapshotOf(scanned)

\* A caller holds a non-empty snapshot it has read while a LoadMCPs waits for
\* the lock.
C1_Witness ==
    \E r \in Readers :
        /\ rpc[r] = "rheld"
        /\ lpc = "lockwait"
        /\ rres[r].seen # EmptyMap
        /\ rres[r].out # <<>>

Failing(scan) == {i \in DOMAIN scan : scan[i].disc.err}

\* The endpoint the claim expects for the i-th candidate of a scan.
PresentAsScanned(m, c) ==
    /\ c.name \in DOMAIN m
    /\ m[c.name].Path = c.path
    /\ m[c.name].ToolInfos = (IF c.disc.err THEN <<>> ELSE c.disc.tools)

\* C2 as stated: when a discovery failed during a LoadMCPs whose walk met no
\* unreadable entry, LoadMCPs returned nil and every candidate of the scan,
\* the failing one included, is present with its own path and tool list.
C2_EveryCandidatePresent ==
    (loadRet # "none" /\ ~walkFault /\ Failing(scanned) # {}) =>
        /\ loadRet = "nil"
        /\ \A i \in DOMAIN scanned : PresentAsScanned(mcpMap, scanned[i])

\* C2, amended: LoadMCPs returns an error exactly when the walk met an entry
\* it could not read, never because a discovery failed; and when it has
\* returned, the map holds, under each identifier of the scan, the candidate
\* visited last with that identifier: with no tools if its discovery failed,
\* with exactly the tools its discovery returned otherwise.
C2_DiscoveryFailureIsolated ==
    loadRet # "none" =>
        /\ (loadRet = "err") <=> walkFault
        /\ mcpMap = SnapshotOf(scanned)
        /\ \A i \in DOMAIN scanned :
              i = LastOf(scanned, scanned[i].name) =>
                  PresentAsScanned(mcpMap, scanned[i])

\* LoadMCPs returned nil after a scan in which one discovery failed and
\* another, under another identifier, returned tools.
C2_Witness ==
    /\ loadRet = "nil"
    /\ \E i, j \in DOMAIN scanned :
         /\ scanned[i].disc.err
         /\ ~scanned[j].disc.err
         /\ scanned[j].disc.tools # <<>>
         /\ scanned[i].name # scanned[j].name
         /\ mcpMap[scanned[i].name].ToolInfos = <<>>

\* The (endpoint, tool) pairs of a snapshot.
ToolPairs(m) ==
    UNION {{<<n, i>> : i \in 1..Len(m[n].ToolInfos)} : n \in DOMAIN m}

\* The entry of a pair: the tool, named identifier + "." + local name.
EntryOf(m, pr) ==
    [Name |-> pr[1] \o <<".">> \o m[pr[1]].ToolInfos[pr[2]].Name,
     Description |-> m[pr[1]].ToolInfos[pr[2]].Description]

RECURSIVE SumOfToolCounts(_, _)
SumOfToolCounts(m, ids) ==
    IF ids = {} THEN 0
    ELSE LET n == CHOOSE x \in ids : TRUE
         IN  Len(m[n].ToolInfos) + SumOfToolCounts(m, ids \ {n})

\* C3: GetAllTools returns as many entries as the endpoints of the snapshot
\* have tools together; each entry occurs as often as there are (endpoint,
\* tool) pairs it is the entry of, so there is one entry per pair and nothing
\* else; and the map is the same after the call as before.
C3_GetAllToolsIsTheUnion ==
    \A r \in Readers :
        (rpc[r] = "rheld" /\ rcall[r].kind = "GetAllTools") =>
            LET m == rres[r].seen
                out == rres[r].out
                entries == {out[k] : k \in DOMAIN out} \cup
                           {EntryOf(m, pr) : pr \in ToolPairs(m)}
            IN  /\ Len(out) = SumOfToolCounts(m, DOMAIN m)
                /\ \A e \in entries :
                      Cardinality({k \in DOMAIN out : out[k] = e}) =
                      Cardinality({pr \in ToolPairs(m) : EntryOf(m, pr) = e})
                /\ mcpMap = m

\* GetAllTools returned the tools of two endpoints, one of which lists a
\* tool twice.
C3_Witness ==
    \E r \in Readers :
        /\ rpc[r] = "rheld"
        /\ rcall[r].kind = "GetAllTools"
        /\ Cardinality(DOMAIN rres[r].seen) >= 2
        /\ Len(rres[r].out) >= 4
        /\ \E k, l \in DOMAIN rres[r].out : k # l /\ rres[r].out[k] = rres[r].out[l]

\* C4: for an identifier without "." that the snapshot holds and any local
\* name t, GetMCPForTool(identifier + "." + t) returns no error, the endpoint
\* stored under the identifier, and exactly t, also when t contains ".".
C4_ResolveRoundTrip ==
    \A r \in Readers :
        (rpc[r] = "rheld" /\ rcall[r].kind = "GetMCPForTool") =>
            \A id \in DOMAIN rres[r].seen, t \in LocalNames :
                (Dots(id) = {} /\ rcall[r].arg = id \o <<".">> \o t) =>
                    /\ rres[r].out.err = "nil"
                    /\ rres[r].out.mcpInfo = rres[r].seen[id]
                    /\ rres[r].out.localToolName = t

\* GetMCPForTool("a.a.b") resolved to the endpoint a and the local name "a.b".
C4_Witness ==
    \E r \in Readers :
        /\ rpc[r] = "rheld"
        /\ rcall[r].arg = <<"a", ".", "a", ".", "b">>
        /\ <<"a">> \in DOMAIN rres[r].seen
        /\ rres[r].out.err = "nil"
        /\ rres[r].out.localToolName = <<"a", ".", "b">>
        /\ rres[r].out.mcpInfo.ToolInfos # <<>>

\* The longest prefix of s that holds no ".".
PrefixLen(s) ==
    SetMax({k \in 0..Len(s) : \A i \in 1..k : s[i] # "."})

\* C5: GetMCPForTool returns an error exactly when the name holds no "." or
\* the part before its first "." is no identifier of the snapshot; with the
\* error it returns no endpoint and no local name, and the map is as it was.
C5_ResolveFailsExactlyWhenUnknown ==
    \A r \in Readers :
        (rpc[r] = "rheld" /\ rcall[r].kind = "GetMCPForTool") =>
            LET name == rcall[r].arg
                m == rres[r].seen
                out == rres[r].out
                unknown == \/ PrefixLen(name) = Len(name)
                           \/ SubSeq(name, 1, PrefixLen(name)) \notin DOMAIN m
            IN  /\ (out.err # "nil") <=> unknown
                /\ out.err # "nil" =>
                      /\ out.mcpInfo = NilInfo
                      /\ out.localToolName = <<>>
                      /\ mcpMap = m

\* GetMCPForTool("g.a") failed while the snapshot holds endpoints, none of
\* them named g.
C5_Witness ==
    \E r \in Readers :
        /\ rpc[r] = "rheld"
        /\ rcall[r].arg = <<"g", ".", "a">>
        /\ rres[r].seen # EmptyMap
        /\ rres[r].out.err = "notfound"

-----------------------------------------------------------------------------
(* Properties of a process session *)

\* C6: when getToolInfos or ExecuteTool has returned after starting a child,
\* the child no longer runs: the operation has killed it (or it had exited),
\* on the path that returns a result and on every path that returns an error.
C6_ChildKilledAtReturn ==
    (spc = "done" /\ child # "none") => child \in {"killed", "exited"}

\* getToolInfos returned a parse error, with its context still live, and the
\* child it had started is killed.
C6_Witness ==
    /\ spc = "done"
    /\ sop = "discover"
    /\ ctx = "live"
    /\ child = "killed"
    /\ sres.err = "parse tools/list response"

\* The bytes read hold the whole JSON text of the answer in the given slot.
HoldsAnswer(got, slot) ==
    /\ Len(got) = 1
    /\ got[1].msg = slot
    /\ got[1].lo = 1
    /\ got[1].hi >= sent[slot].len - 1

\* C7: the initialize request is the first message written; the follow-up
\* request is written only after a read has returned one answer to
\* initialize; at most one follow-up is written, nothing after it, and an
\* operation that returns a result has read exactly one answer for it.
C7_MessageOrder ==
    /\ Len(Writes) <= 2
    /\ Len(Reads) <= 2
    /\ Len(Writes) >= 1 => Writes[1].msg = "initialize"
    /\ Len(Writes) = 2 =>
          /\ Writes[2].msg = FollowUp(sop)
          /\ ios[2].op = "read"
          /\ HoldsAnswer(ios[2].got, "init")
    /\ (spc = "done" /\ sres.err = "nil") =>
          /\ Len(Reads) = 2
          /\ HoldsAnswer(Reads[2].got, "resp")

\* The segments of bytes the child has written so far.
Written ==
    {pipe[k] : k \in DOMAIN pipe} \cup
    UNION {{ios[k].got[j] : j \in DOMAIN ios[k].got} : k \in DOMAIN ios}

\* The provider has written the whole answer of a slot, newline included.
Delivered(slot) ==
    /\ sent[slot].len > 0
    /\ \E g \in Written : g.msg = slot /\ g.hi = sent[slot].len

\* What the operation returns for a decoded answer.
ResultFor(op, body) ==
    IF op = "discover" THEN ParseToolInfos(body) ELSE ParseCallResponse(body)

\* C8: when the provider has written both of its answers in full and the
\* context is live, the operation returns what the follow-up's answer decodes
\* to, however the pipe delivered the bytes to the reads.
C8_OutcomeIndependentOfChunks ==
    (spc = "done" /\ ctx = "live" /\ Delivered("init") /\ Delivered("resp")) =>
        sres = ResultFor(sop, sent.resp.body)

\* C9: when the provider has answered tools/call with an error object,
\* ExecuteTool returns an error that carries the object's message and code,
\* and no result; when it has answered with a result, ExecuteTool returns
\* that value.
C9_RemoteErrorPassedThrough ==
    (spc = "done" /\ sop = "invoke" /\ Delivered("resp")
        /\ sent.resp.body.type # "garbage") =>
        IF sent.resp.body.type = "error"
        THEN /\ sres.err = "tool"
             /\ sres.text[2] = sent.resp.body.message
             /\ sres.text[4] = Itoa(sent.resp.body.code)
             /\ sres.value = ""
        ELSE /\ sres.err = "nil"
             /\ sres.value = sent.resp.body.value

\* C10: when the context was cancelled while ExecuteTool ran, ExecuteTool
\* returns the context's error, the child does not run and the pipes are
\* closed.
C10_CancellationHonoured ==
    (spc = "done" /\ sop = "invoke" /\ ctx = "done") =>
        /\ child # "running"
        /\ fds # "open"
        /\ sres.err \notin {"none", "nil"}
        /\ sres.cause = "ctx"

-----------------------------------------------------------------------------
(* Properties of a reload with its discoveries *)

\* The discovery in progress is of a provider that has written nothing.
SilentDiscovery == sop = "discover" /\ child # "none" /\ served = 0

\* C11: a discovery always returns, and once the context's time is over the
\* child is killed unless it exits by itself; the discovery of a provider that writes nothing returns an
\* error with the child not running; LoadMCPs then stores the candidate with
\* no tools and walks on; and LoadMCPs returns, with nil unless the walk
\* itself failed.
C11_SilentProviderTimesOut ==
    /\ []((SilentDiscovery /\ spc = "done") =>
            (sres.err \notin {"none", "nil"} /\ child \in {"killed", "exited"}))
    /\ [][(SilentDiscovery /\ spc = "done" /\ spc' = "idle") =>
            /\ lpc' = "walking"
            /\ NameOf(Universe[walkPos]) \in DOMAIN mcpMap'
            /\ mcpMap'[NameOf(Universe[walkPos])].Path = Universe[walkPos]
            /\ mcpMap'[NameOf(Universe[walkPos])].ToolInfos = <<>>]_vars
    /\ (sop = "discover" /\ spc \notin {"idle", "done"}) ~> (spc = "done")
    /\ (ctx = "done" /\ child = "running") ~> (child \in {"killed", "exited"})
    /\ (lpc = "walking") ~> (lpc = "idle" /\ (loadRet = "nil" \/ walkFault))

\* During a reload getToolInfos has returned a read error for a provider that
\* wrote nothing and was killed when the context's time was over.
C11_Witness ==
    /\ lpc = "walking"
    /\ SilentDiscovery
    /\ spc = "done"
    /\ ctx = "done"
    /\ child = "killed"
    /\ Len(Writes) = 1
    /\ sres.err = "read initialize response"

-----------------------------------------------------------------------------
(* Properties of the registry's lock *)

\* C12: a caller of GetAllTools or GetMCPForTool that waits for the read
\* lock gets it, and a caller that has it returns; a LoadMCPs that waits for
\* the write lock gets it, whatever callers arrive meanwhile, and a LoadMCPs
\* that has it returns.
C12_NoCallBlocksForever ==
    /\ \A r \in Readers : (rpc[r] = "rwait") ~> (rpc[r] = "rlocked")
    /\ \A r \in Readers : (rpc[r] = "rlocked") ~> (rpc[r] = "idle")
    /\ (lpc = "lockwait") ~> (lpc = "walking")
    /\ (lpc = "walking") ~> (lpc = "idle")

\* A caller waits for the read lock behind a LoadMCPs, which waits for the
\* write lock behind another caller that has read a snapshot.
C12_Witness ==
    \E r1, r2 \in Readers :
        /\ rpc[r1] = "rwait"
        /\ rpc[r2] = "rheld"
        /\ lpc = "lockwait"
        /\ mutex.writer = "pending"
        /\ rres[r2].seen # EmptyMap

-----------------------------------------------------------------------------
(* Properties of the server *)

\* The request in hand came over HTTP, decodes, and asks for the method.
Asked(mode, method) ==
    /\ req.mode = mode
    /\ req.decodes = "yes"
    /\ req.method = method

Answered == frame # NoFrame

\* The name holds no "." or the part before its first "." is no identifier of
\* the map.
Unresolvable(m, name) ==
    \/ PrefixLen(name) = Len(name)
    \/ SubSeq(name, 1, PrefixLen(name)) \notin DOMAIN m

\* No process session was begun for the request in hand.
NothingSpawned == sop \in {"none", "invoke"} /\ child = "none" /\ fds = "none"

\* C13: ProcessRequest answers tools/list with a result frame that has
\* jsonrpc "2.0", the request's id and, as tools, what GetAllTools returns for
\* the map; no process is started for it, and the step that answers leaves
\* the map as it was.
C13_ToolsListAnswer ==
    /\ []((Asked("http", "tools/list") /\ Answered) =>
            /\ frame.kind = "result"
            /\ frame.jsonrpc = "2.0"
            /\ frame.id = req.id
            /\ \E order \in Orders(DOMAIN mcpMap) :
                   frame.tools = GetAllTools(mcpMap, order)
            /\ sop = "none"
            /\ NothingSpawned)
    /\ [][(Asked("http", "tools/list") /\ ~Answered /\ Answered') =>
            (mcpMap' = mcpMap /\ scanned' = scanned)]_vars

\* tools/list was answered over HTTP with the tools of two providers.
C13_Witness ==
    /\ Asked("http", "tools/list")
    /\ frame.kind = "result"
    /\ Cardinality(DOMAIN mcpMap) >= 2
    /\ Len(frame.tools) >= 4

\* C14: for a tools/call whose name does not resolve no process is ever
\* started, and the answer is an error frame with code -32000 and the
\* request's id.
C14_UnresolvedCallAnswer ==
    (Asked("http", "tools/call") /\ Unresolvable(mcpMap, req.name)) =>
        /\ NothingSpawned
        /\ Answered =>
              /\ frame.kind = "error"
              /\ frame.jsonrpc = "2.0"
              /\ frame.code = -32000
              /\ frame.id = req.id

\* A tools/call of g.a was answered with an error frame while the map holds
\* providers, none named g.
C14_Witness ==
    /\ Asked("http", "tools/call")
    /\ req.name = <<"g", ".", "a">>
    /\ mcpMap # EmptyMap
    /\ frame.kind = "error"
    /\ sres.err = "resolve"

\* C15: a tools/call whose name resolves is answered with a JSON-RPC frame
\* that has the request's id, never with an error to the transport: with a
\* result frame that carries the provider's result when ExecuteTool returned
\* no error, and else with an error frame whose message carries the error of
\* ExecuteTool (the provider's message and code for a remote error); and
\* after the answer the next request can be taken up.
C15_ResolvedCallAnswer ==
    (Asked("http", "tools/call") /\ ~Unresolvable(mcpMap, req.name) /\ Answered) =>
        /\ frame.kind \in {"result", "error"}
        /\ frame.jsonrpc = "2.0"
        /\ frame.id = req.id
        /\ sres.err # "none"
        /\ sres.err = "nil" =>
              /\ frame.kind = "result"
              /\ sent.resp.body.type = "result"
              /\ frame.value = sent.resp.body.value
        /\ sres.err = "tool" =>
              /\ frame.kind = "error"
              /\ \E k \in DOMAIN frame.message :
                    /\ frame.message[k] = sent.resp.body.message
                    /\ frame.message[k + 2] = Itoa(sent.resp.body.code)
        /\ sres.err \notin {"nil", "tool"} =>
              /\ frame.kind = "error"
              /\ \E k \in DOMAIN frame.message : frame.message[k] = sres.err
              /\ frame.message[Len(frame.message)] = sres.cause
        /\ ENABLED Receive

\* A tools/call was answered with an error frame for the error object the
\* provider had answered with.
C15_Witness ==
    /\ Asked("http", "tools/call")
    /\ frame.kind = "error"
    /\ sres.err = "tool"
    /\ child = "killed"
    /\ sent.resp.body = ErrorBody(-1, "cannot divide by zero")

\* C16: ProcessRequest answers a method other than tools/list and tools/call
\* with a method-not-implemented error to the transport, not with a frame; no
\* process is started for it, and the step that answers leaves the map as it
\* was.
C16_OtherMethodAnswer ==
    /\ []((req.mode = "http" /\ req.decodes = "yes" /\ Answered
           /\ req.method \notin {"tools/list", "tools/call"}) =>
            /\ frame.kind = "transport"
            /\ frame.jsonrpc = ""
            /\ frame.message = <<"method not implemented: ", req.method>>
            /\ sop = "none"
            /\ NothingSpawned)
    /\ [][(req.mode = "http" /\ req.method \notin {"tools/list", "tools/call"}
           /\ ~Answered /\ Answered') =>
            (mcpMap' = mcpMap /\ scanned' = scanned)]_vars

\* A ping over HTTP got the error while the map holds providers.
C16_Witness ==
    /\ Asked("http", "ping")
    /\ frame.kind = "transport"
    /\ mcpMap # EmptyMap

\* C20: in stdio mode as in HTTP mode, tools/list is answered with the tools
\* of all loaded providers under their namespaced names, and a tools/call of
\* a name that resolves runs ExecuteTool on the executable of the provider
\* that owns it.
C20_StdioAnswersAsHTTP ==
    \A mode \in {"http", "stdio"} :
        /\ (Asked(mode, "tools/list") /\ Answered) =>
              /\ frame.kind = "result"
              /\ \E order \in Orders(DOMAIN mcpMap) :
                     frame.tools = GetAllTools(mcpMap, order)
        /\ (Asked(mode, "tools/call") /\ ~Unresolvable(mcpMap, req.name)
            /\ Answered) =>
              /\ sop = "invoke"
              /\ target = mcpMap[SubSeq(req.name, 1, PrefixLen(req.name))].Path

\* C19: every endpoint of the map, and every file discovery ran for, is a
\* direct entry of the configured directory (its path relative to the
\* directory has no separator) that the walk met as an executable regular
\* file.
C19_OnlyDirectEntries ==
    /\ \A i \in DOMAIN scanned : Slashes(scanned[i].path) = {}
    /\ \A n \in DOMAIN mcpMap :
          /\ Slashes(mcpMap[n].Path) = {}
          /\ \E i \in DOMAIN scanned : scanned[i].path = mcpMap[n].Path

\* The identifiers of the candidates of a scan.
ScannedNames(scan) == {scan[i].name : i \in DOMAIN scan}

\* C18: when LoadMCPs has returned nil the map holds an endpoint under
\* exactly the identifiers of the candidates of this scan, each with the path
\* and the tools of a candidate of this scan; an identifier of the map the
\* call found that no candidate of this scan has is absent, no name resolves
\* to an endpoint of that identifier, and a name whose part before the first
\* "." is that identifier does not resolve.
C18_SnapshotReplacedWholesale ==
    (lpc = "idle" /\ loadRet = "nil") =>
        /\ DOMAIN mcpMap = ScannedNames(scanned)
        /\ \A n \in DOMAIN mcpMap :
              \E i \in DOMAIN scanned :
                  /\ scanned[i].name = n
                  /\ mcpMap[n].Path = scanned[i].path
                  /\ mcpMap[n].ToolInfos =
                        (IF scanned[i].disc.err THEN <<>> ELSE scanned[i].disc.tools)
        /\ \A n \in DOMAIN prevMap \ ScannedNames(scanned) :
              /\ n \notin DOMAIN mcpMap
              /\ \A name \in ToolNames \cup {Sprintf2(n, t) : t \in LocalNames} :
                    LET r == GetMCPForTool(mcpMap, name)
                    IN  /\ r.err = "nil" => r.mcpInfo.Name # n
                        /\ SubSeq(name, 1, PrefixLen(name)) = n => r.err # "nil"

\* A reload returned nil: an identifier of the map before it is gone, and
\* another is back with other tools than it had.
C18_Witness ==
    /\ lpc = "idle"
    /\ loadRet = "nil"
    /\ DOMAIN prevMap \ DOMAIN mcpMap # {}
    /\ \E n \in DOMAIN prevMap \cap DOMAIN mcpMap :
          /\ prevMap[n].ToolInfos # <<>>
          /\ mcpMap[n].ToolInfos # prevMap[n].ToolInfos

\* The calls that are a discovery or an invocation whose name resolved.
Resolved == {s \in Sessions : SessionOf(s).target # <<>>}

\* The calls that have started a process.
Spawned == {s \in Sessions : SessionOf(s).session.child # "none"}

\* The call has returned from cmd.Start(), or from before it.
PastStart(s) == SessionOf(s).session.spc \notin {"idle", "start"}

\* The call s can take its next step now, or waits for the answer of the
\* process it started itself.
CanStep(s) ==
    LET st == SessionOf(s).session
    IN  \/ st.spc \in {"idle", "start", "writeInit", "writeReq", "parse", "done"}
        \/ st.pipe # <<>>
        \/ st.child = "running" /\ st.served < Len(SelectSeq(st.ios, LAMBDA e : e.op = "write"))

C22_FailedReloadKeepsSnapshot ==
    (lpc = "idle" /\ loadRet = "err") => mcpMap = prevMap

\* The candidates of a scan that a later candidate shares its identifier
\* with.
Overwritten(scan) ==
    {i \in DOMAIN scan : \E j \in DOMAIN scan : i < j /\ scan[j].name = scan[i].name}

\* The tools discovery returned for a candidate.
ToolsOf(c) == IF c.disc.err THEN <<>> ELSE c.disc.tools

\* C23: when LoadMCPs has returned after a scan in which two candidates had
\* the same identifier, it returned an error only if the walk met an entry it
\* could not read; and when it returned nil, the map holds under that
\* identifier the path and the tools of the candidate visited last,
\* GetAllTools lists, endpoint by endpoint, the tools of the candidates
\* visited last and no more, and no name resolves to the executable of a
\* candidate visited earlier.
C23_LaterCandidateWins ==
    (lpc = "idle" /\ loadRet # "none" /\ Overwritten(scanned) # {}) =>
        /\ loadRet = "err" => walkFault
        /\ loadRet = "nil" =>
              /\ \A i \in Overwritten(scanned) :
                    LET n == scanned[i].name
                        later == scanned[LastOf(scanned, n)]
                    IN  /\ n \in DOMAIN mcpMap
                        /\ mcpMap[n].Path = later.path
                        /\ mcpMap[n].Path # scanned[i].path
                        /\ mcpMap[n].ToolInfos = ToolsOf(later)
                        /\ \A name \in ToolNames :
                              GetMCPForTool(mcpMap, name).mcpInfo.Path # scanned[i].path
              /\ \A order \in Orders(DOMAIN mcpMap) :
                    LET all == GetAllTools(mcpMap, order)
                    IN  /\ Len(all) = SumOfToolCounts(SnapshotOf(scanned),
                                                       DOMAIN SnapshotOf(scanned))
                        /\ \A k \in DOMAIN all :
                              \E j \in DOMAIN scanned \ Overwritten(scanned) :
                                \E t \in DOMAIN ToolsOf(scanned[j]) :
                                  /\ all[k].Name = scanned[j].name \o <<".">>
                                                      \o ToolsOf(scanned[j])[t].Name
                                  /\ all[k].Description =
                                        ToolsOf(scanned[j])[t].Description

\* LoadMCPs returned nil after it met a and a.x, each with tools of its own:
\* the map holds a.x under the identifier a.
C23_Witness ==
    /\ lpc = "idle"
    /\ loadRet = "nil"
    /\ \E i \in Overwritten(scanned) :
          /\ ToolsOf(scanned[i]) # <<>>
          /\ ToolsOf(scanned[LastOf(scanned, scanned[i].name)]) # <<>>
          /\ ToolsOf(scanned[LastOf(scanned, scanned[i].name)]) # ToolsOf(scanned[i])
          /\ mcpMap[scanned[i].name].Path = <<"a", ".", "x">>

\* C24: in the map a LoadMCPs left, GetAllTools lists every tool of every
\* endpoint under a name that GetMCPForTool resolves, without error, to that
\* endpoint and to the tool's local name.
C24_ListedNamesResolve ==
    (lpc = "idle" /\ loadRet = "nil") =>
        \A order \in Orders(DOMAIN mcpMap) :
            LET all == GetAllTools(mcpMap, order)
            IN  \A n \in DOMAIN mcpMap :
                  \A k \in DOMAIN mcpMap[n].ToolInfos :
                    \E j \in DOMAIN all :
                       LET r == GetMCPForTool(mcpMap, all[j].Name)
                       IN  /\ all[j].Name = n \o <<".">> \o mcpMap[n].ToolInfos[k].Name
                           /\ r.err = "nil"
                           /\ r.mcpInfo = mcpMap[n]
                           /\ r.localToolName = mcpMap[n].ToolInfos[k].Name

\* The last stdout.Write of mcp-proxy failed.
WriteFailed ==
    /\ response # NoResponse
    /\ stdout = <<>> \/ stdout[Len(stdout)] # response

\* C21: mcp-proxy's main returns eventually once stdin is at its end, and
\* returns eventually once SIGINT or SIGTERM has arrived, whether or not any
\* input follows the signal; and it returns only after one of the two, or
\* after a write to stdout failed.
C21_ProxyTerminates ==
    /\ (stdin.state # "open") ~> (ppc = "exited")
    /\ (signals # "none") ~> (ppc = "exited")
    /\ [](ppc = "exited" =>
            (stdin.state # "open" \/ signals = "taken" \/ WriteFailed))

\* The POSTs whose answer has not come yet.
InFlight == {i \in DOMAIN posts : posts[i].outcome \in {"pending", "cancelled"}}

\* C27: mcp-proxy makes one POST for each chunk it read, with that chunk and
\* in the order of the reads, and reads the next chunk only after the forward
\* of the one before has returned, so that at most one forward is in flight;
\* stdout holds the bodies of the forwards that succeeded, in the order of
\* their requests; and the return of a forward that failed writes nothing,
\* cancels nothing and takes main to the next round of the loop.
C27_ProxyForwardsInOrder ==
    /\ [](/\ Len(chunks) = Len(posts) + (IF ppc = "forward" THEN 1 ELSE 0)
          /\ \A i \in DOMAIN posts :
                /\ posts[i].chunk = chunks[i]
                /\ posts[i].chunk # <<>>
          /\ Cardinality(InFlight) <= 1
          /\ InFlight # {} <=> ppc = "await"
          /\ InFlight \subseteq {Len(posts)}
          /\ \A k \in DOMAIN stdout :
                /\ stdout[k].to \in DOMAIN posts
                /\ posts[stdout[k].to].outcome = "ok"
                /\ k > 1 => stdout[k - 1].to < stdout[k].to
          /\ \A i \in DOMAIN posts :
                posts[i].outcome = "ok" =>
                    \/ \E k \in DOMAIN stdout : stdout[k] = ResponseTo(i)
                    \/ i = Len(posts) /\ ppc = "write"
                    \/ i = Len(posts) /\ ppc = "exited" /\ WriteFailed)
    /\ [][(ppc = "await" /\ ppc' \notin {"await", "write"}) =>
            /\ stdout' = stdout
            /\ pctx' = pctx
            /\ ppc' = "select"
            /\ posts'[Len(posts)].outcome \in ForwardOutcomes \ {"ok"}]_vars

\* Three chunks were read and forwarded one after another; the second
\* forward got a status other than 200; stdout holds the bodies of the first
\* and of the third, and main is back at the head of the loop.
C27_Witness ==
    /\ Len(chunks) = 3
    /\ Len(posts) = 3
    /\ posts[1].outcome = "ok"
    /\ posts[2].outcome = "status"
    /\ posts[3].outcome = "ok"
    /\ stdout = <<ResponseTo(1), ResponseTo(3)>>
    /\ ppc = "read"
    /\ pctx = "live"

\* C26: an error frame that answers a tools/call has the code -32000 and a
\* message that begins with "Failed to execute tool: "; when the provider had
\* answered with an error object, that object's message and code stand in the
\* frame's message text and nowhere else in the frame.
C26_ErrorFramesCarryOneCode ==
    (Asked("http", "tools/call") /\ Answered /\ frame.kind = "error") =>
        /\ frame.code = -32000
        /\ frame.message[1] = "Failed to execute tool: "
        /\ frame.value = ""
        /\ frame.tools = <<>>
        /\ sres.err = "tool" =>
              /\ sent.resp.body.type = "error"
              /\ sent.resp.body.code # frame.code
              /\ \E k \in DOMAIN frame.message :
                    /\ k > 1
                    /\ frame.message[k] = sent.resp.body.message
                    /\ frame.message[k + 2] = Itoa(sent.resp.body.code)

\* The provider answered a tools/call with an error object of code -32603,
\* and the frame has the code -32000.
C26_Witness ==
    /\ Asked("http", "tools/call")
    /\ frame.kind = "error"
    /\ frame.code = -32000
    /\ sres.err = "tool"
    /\ sent.resp.body = ErrorBody(-32603, "x must be a number")

\* ExecuteTool is past GetMCPForTool and has not returned.
InvocationInFlight == sop = "invoke" /\ spc \notin {"idle", "done"}

\* C25: while ExecuteTool is past GetMCPForTool it holds no read lock, so that
\* a LoadMCPs can be called, take the lock, scan and return meanwhile; the
\* path the command was made for stays what GetMCPForTool resolved, whatever
\* LoadMCPs does to the map; the invocation can take every step a reload
\* leaves it at; and it returns the result its own process answered with.
C25_InvocationOutlivesReload ==
    /\ [](InvocationInFlight =>
            /\ mutex.readers = {}
            /\ rpc[1] = "idle"
            /\ target # <<>>
            /\ (lpc = "idle" /\ mutex.writer = "none") => ENABLED ReloadCall
            /\ lpc = "lockwait" => ENABLED LoadAcquire
            /\ lpc = "walking" => ENABLED LoadReturn
            /\ spc = "start" => ENABLED SessStart
            /\ spc \in {"writeInit", "writeReq"} => ENABLED SessWrite
            /\ (spc \in {"readInit", "readResp"} /\ pipe # <<>>) => ENABLED SessRead
            /\ spc = "parse" => ENABLED SessFinish)
    /\ []((sop = "invoke" /\ spc = "done" /\ sres.err = "nil") =>
            /\ sent.resp.body.type = "result"
            /\ sres.value = sent.resp.body.value)
    /\ [][(InvocationInFlight /\ mcpMap' # mcpMap) =>
            (target' = target /\ UNCHANGED sessVars)]_vars
    /\ [][InvocationInFlight => target' = target]_vars

\* An invocation resolved to the executable a and started it; a reload then
\* ran and returned, leaving the identifier a with the executable a.x; the
\* process of a runs on and the invocation reads its answer afterwards.
C25_Witness ==
    /\ InvocationInFlight
    /\ spc = "readResp"
    /\ child = "running"
    /\ target = <<"a">>
    /\ lpc = "idle"
    /\ loadRet = "nil"
    /\ <<"a">> \in DOMAIN prevMap
    /\ prevMap[<<"a">>].Path = <<"a">>
    /\ <<"a">> \in DOMAIN mcpMap
    /\ mcpMap[<<"a">>].Path = <<"a", ".", "x">>

====
